---- MODULE Spec2Model ----
(***************************************************************************)
(* fluxbitc: a configuration-to-command-line compiler for ffmpeg burn-in   *)
(* overlays (src/fluxbitc.py).                                             *)
(*                                                                         *)
(* Text is a sequence of symbols.  A symbol is one character ("$", ":",    *)
(* "a") or an atomic word that no operation of the program looks inside    *)
(* ("drawtext=", "-hide_banner", "text").  JSON values are tagged records  *)
(* [t, v]; a mapping keeps its entries in insertion order, as a Python     *)
(* dict does.                                                              *)
(***************************************************************************)
EXTENDS Integers, Sequences, FiniteSets, TLC

VARIABLES
    pc,       \* position of main(), or of the call under check
    data,     \* Config.data, the configuration document with "_userdata"
    args,     \* the inputs of the run or of the call
    locals,   \* main()'s local variables
    ret,      \* the value returned by the call under check
    exc,      \* the exception raised, "none" when none
    written,  \* history: every (key, value) handed to hydrate_userdata, in order
    ran,      \* number of times the transcode tool was invoked
    status,   \* the process exit status, -1 while running
    stderr,   \* what the program wrote to the error stream
    trace     \* history: the calls main() has made, in order

vars == <<pc, data, args, locals, ret, exc, written, ran, status, stderr, trace>>

(***************************************************************************)
(* Python str and list primitives                                          *)
(***************************************************************************)

\* seq[i:] for a 0-based i
Drop(s, n) == SubSeq(s, n + 1, Len(s))

Take(s, n) == SubSeq(s, 1, n)

StartsWith(s, p) == Len(p) <= Len(s) /\ Take(s, Len(p)) = p

\* `sub in s`
Contains(s, sub) == \E i \in 0..(Len(s) - Len(sub)) : StartsWith(Drop(s, i), sub)

\* s.replace(old, new): non-overlapping occurrences, left to right; old is never empty here
RECURSIVE Replace(_, _, _)
Replace(s, old, new) ==
    IF Len(s) < Len(old) THEN s
    ELSE IF StartsWith(s, old) THEN new \o Replace(Drop(s, Len(old)), old, new)
    ELSE <<Head(s)>> \o Replace(Tail(s), old, new)

\* s.split(sep) for a one-symbol sep: always at least one part
RECURSIVE Split(_, _)
Split(s, sep) ==
    IF \A i \in 1..Len(s) : s[i] # sep THEN <<s>>
    ELSE LET i == CHOOSE j \in 1..Len(s) : s[j] = sep /\ \A m \in 1..(j - 1) : s[m] # sep
         IN  <<Take(s, i - 1)>> \o Split(Drop(s, i), sep)

\* sep.join(parts)
RECURSIVE Join(_, _)
Join(parts, sep) ==
    IF parts = <<>> THEN <<>>
    ELSE IF Len(parts) = 1 THEN parts[1]
    ELSE parts[1] \o sep \o Join(Tail(parts), sep)

DigitSyms == <<"0", "1", "2", "3", "4", "5", "6", "7", "8", "9">>

\* str(n) of an int n >= 0
RECURSIVE Digits(_)
Digits(n) ==
    IF n < 10 THEN <<DigitSyms[n + 1]>>
    ELSE Digits(n \div 10) \o <<DigitSyms[(n % 10) + 1]>>

DigitVal(c) == (CHOOSE i \in 1..10 : DigitSyms[i] = c) - 1

\* int(s) / float(s) of a string of decimal digits
RECURSIVE ParseInt(_)
ParseInt(s) ==
    IF s = <<>> THEN 0
    ELSE 10 * ParseInt(Take(s, Len(s) - 1)) + DigitVal(s[Len(s)])

(***************************************************************************)
(* JSON values and Python dicts                                            *)
(***************************************************************************)

Str(s) == [t |-> "str", v |-> s]

Num(n) == [t |-> "int", v |-> n]

Dict(kv) == [t |-> "dict", v |-> kv]

List(xs) == [t |-> "list", v |-> xs]

None == [t |-> "null", v |-> <<>>]

EmptyDict == Dict(<<>>)

\* str(v) of a scalar
StrOf(x) == IF x.t = "int" THEN Digits(x.v) ELSE x.v

\* k in d
DictHas(d, k) == \E i \in 1..Len(d.v) : d.v[i][1] = k

\* d[k]
DictAt(d, k) == d.v[CHOOSE i \in 1..Len(d.v) : d.v[i][1] = k][2]

\* d.get(k, default)
DictGet(d, k, default) == IF DictHas(d, k) THEN DictAt(d, k) ELSE default

\* d[k] = x: an existing key keeps its place, a new key goes last
DictSet(d, k, x) ==
    IF DictHas(d, k)
    THEN Dict([i \in 1..Len(d.v) |-> IF d.v[i][1] = k THEN <<k, x>> ELSE d.v[i]])
    ELSE Dict(Append(d.v, <<k, x>>))

\* d.update(other)
RECURSIVE DictUpdate(_, _)
DictUpdate(d, other) ==
    IF other.v = <<>> THEN d
    ELSE DictUpdate(DictSet(d, other.v[1][1], other.v[1][2]), Dict(Tail(other.v)))

(***************************************************************************)
(* class Config                                                            *)
(***************************************************************************)

K(word) == <<word>>

\* Config.init_fonts: a font's fontcolor naming a color becomes that color's value
InitFonts(doc) ==
    IF DictHas(doc, K("fonts")) /\ DictHas(doc, K("colors"))
    THEN LET fonts  == DictAt(doc, K("fonts"))
             colors == DictAt(doc, K("colors"))
             Fix(font) ==
                 IF DictHas(font, K("fontcolor"))
                    /\ \E i \in 1..Len(colors.v) :
                          Str(colors.v[i][1]) = DictAt(font, K("fontcolor"))
                 THEN DictSet(font, K("fontcolor"),
                              DictAt(colors, DictAt(font, K("fontcolor")).v))
                 ELSE font
         IN  DictSet(doc, K("fonts"),
                     Dict([i \in 1..Len(fonts.v) |-> <<fonts.v[i][1], Fix(fonts.v[i][2])>>]))
    ELSE doc

\* Config.__init__ after the file was found and parsed
LoadConfig(doc) == DictSet(InitFonts(doc), K("_userdata"), EmptyDict)

\* Config.get: the loop over key.split(".")
RECURSIVE GetLoop(_, _, _)
GetLoop(item, ks, default) ==
    IF ks = <<>> THEN item
    ELSE IF item.t # "dict" THEN default
    ELSE GetLoop(DictGet(item, Head(ks), default), Tail(ks), default)

ConfigGet(d, key, default) == GetLoop(d, Split(key, "."), default)

\* hydrate_userdata's list branch, were it to keep a key's first value
RECURSIVE HydrateListKeepFirst(_, _)
HydrateListKeepFirst(ud, entries) ==
    IF entries = <<>> THEN [ud |-> ud, exc |-> "none"]
    ELSE LET parts == Split(Head(entries), "=")
         IN  IF Len(parts) # 2 THEN [ud |-> ud, exc |-> "BitcException"]
             ELSE HydrateListKeepFirst(IF DictHas(ud, parts[1]) THEN ud
                                       ELSE DictSet(ud, parts[1], Str(parts[2])),
                                       Tail(entries))

\* One pass of the list branch of hydrate_userdata; a bad entry raises after the
\* entries before it were written
RECURSIVE HydrateList(_, _)
HydrateList(ud, entries) ==
    IF entries = <<>> THEN [ud |-> ud, exc |-> "none"]
    ELSE LET parts == Split(Head(entries), "=")
         IN  IF Len(parts) # 2 THEN [ud |-> ud, exc |-> "BitcException"]
             ELSE HydrateList(DictSet(ud, parts[1], Str(parts[2])), Tail(entries))

\* Config.hydrate_userdata(src): src is None, a list of KEY=VALUE texts, or a mapping
HydrateUserdata(d, src) ==
    LET ud == DictAt(d, K("_userdata"))
        r  == IF src.t = "list" THEN HydrateList(ud, src.v)
              ELSE IF src.t = "dict" THEN [ud |-> DictUpdate(ud, src), exc |-> "none"]
              ELSE [ud |-> ud, exc |-> "none"]
    IN  [data |-> DictSet(d, K("_userdata"), r.ud), exc |-> r.exc]

(***************************************************************************)
(* build_userdata_from_metadata                                            *)
(***************************************************************************)

\* round(float(n) / float(d), 3) in thousandths.  No rate of the model lies half
\* way between two thousandths (d is odd or 1), so the rounding mode is not in play.
Round3(n, d) == (2000 * n + d) \div (2 * d)

\* trailing zeros of a fraction dropped, one digit kept
RECURSIVE StripZeros(_)
StripZeros(s) ==
    IF Len(s) > 1 /\ s[Len(s)] = "0" THEN StripZeros(Take(s, Len(s) - 1)) ELSE s

\* str() of the float m / 1000
FloatText(m) ==
    LET f == m % 1000
    IN  Digits(m \div 1000) \o <<".">>
        \o StripZeros(<<DigitSyms[(f \div 100) + 1], DigitSyms[((f \div 10) % 10) + 1],
                        DigitSyms[(f % 10) + 1]>>)

\* the text of `fps` in info_1
FpsText(fps_rate) ==
    IF Contains(fps_rate, <<"/">>)
    THEN LET nd == Split(fps_rate, "/")
         IN  FloatText(Round3(ParseInt(nd[1]), ParseInt(nd[2])))
    ELSE Digits(ParseInt(fps_rate))

BuildUserdataFromMetadata(output_filename, video_stream, now) ==
    LET fps_rate   == DictAt(video_stream, K("avg_frame_rate")).v
        info_1     == StrOf(DictAt(video_stream, K("width"))) \o <<"x">>
                      \o StrOf(DictAt(video_stream, K("height"))) \o <<",", " ">>
                      \o FpsText(fps_rate) \o <<" ", "FPS">>
        color      == DictGet(video_stream, K("color_range"), Str(<<>>)).v
        color_info == IF color # <<>> THEN color \o <<",", " ">> ELSE color
        info_2     == DictAt(video_stream, K("codec_name")).v \o <<",", " ">>
                      \o color_info \o DictAt(video_stream, K("pix_fmt")).v
    IN  IF fps_rate # DictAt(video_stream, K("r_frame_rate")).v
        THEN [exc |-> "BitcException", val |-> None]
        ELSE [exc |-> "none",
              val |-> Dict(<< <<K("frame_start"), Str(<<"0">>)>>,
                              <<K("timecode_start"),
                                Str(<<"01", ":", "00", ":", "00", ":", "00">>)>>,
                              <<K("fps_rate"), Str(fps_rate)>>,
                              <<K("heading_title"), Str(output_filename)>>,
                              <<K("heading_sub"), Str(Split(now, ".")[1] \o <<"Z">>)>>,
                              <<K("info_1"), Str(info_1)>>,
                              <<K("info_2"), Str(info_2)>> >>)]

(***************************************************************************)
(* build_overlay_flags                                                     *)
(***************************************************************************)

Placeholder(uk) == <<"$", "{">> \o uk \o <<"}">>

\* the loop over userdata.items(): each key in turn, on the value as it then stands
RECURSIVE Substitute(_, _)
Substitute(v, uds) ==
    IF uds = <<>> THEN v
    ELSE LET target == Placeholder(uds[1][1])
         IN  Substitute(IF Contains(v, target) THEN Replace(v, target, uds[1][2].v) ELSE v,
                        Tail(uds))

\* the escaping, were the comma left out
EscapeColonOnly(v) == Replace(v, <<":">>, <<"\\", ":">>)

\* escape : and , in vf
Escape(v) == Replace(Replace(v, <<":">>, <<"\\", ":">>), <<",">>, <<"\\", ",">>)

\* the clause of the parameter itself
Clause(k, v) ==
    IF k = K("text") \/ k = K("timecode")
    THEN k \o <<"=", "'">> \o v \o <<"'">>
    ELSE k \o <<"=">> \o v

\* the clauses a `font` parameter adds from the font it names
FontClauses(k, v, fonts) ==
    IF k = K("font") /\ DictHas(fonts, v)
    THEN LET f == DictAt(fonts, v)
         IN  [i \in 1..Len(f.v) |-> f.v[i][1] \o <<"=">> \o StrOf(f.v[i][2])]
    ELSE <<>>

\* one turn of the loop over item.items()
ParamFilters(k, x, userdata, fonts) ==
    LET v == StrOf(x)
    IN  FontClauses(k, v, fonts) \o <<Clause(k, Escape(Substitute(v, userdata.v)))>>

RECURSIVE ItemFilters(_, _, _)
ItemFilters(params, userdata, fonts) ==
    IF params = <<>> THEN <<>>
    ELSE ParamFilters(params[1][1], params[1][2], userdata, fonts)
         \o ItemFilters(Tail(params), userdata, fonts)

\* an item's string, were its clauses joined like the items are
DrawTextCommaJoined(item, userdata, fonts) ==
    <<"drawtext=">> \o Join(ItemFilters(item.v, userdata, fonts), <<",">>)

DrawText(item, userdata, fonts) ==
    <<"drawtext=">> \o Join(ItemFilters(item.v, userdata, fonts), <<":">>)

BuildOverlayFlags(preset_name, d) ==
    LET presets == ConfigGet(d, K("presets"), EmptyDict)
    IN  IF ~DictHas(presets, preset_name) THEN [exc |-> "BitcException", val |-> <<>>]
        ELSE LET preset == DictAt(DictAt(d, K("presets")), preset_name)
             IN  IF ~DictHas(preset, K("items")) THEN [exc |-> "BitcException", val |-> <<>>]
                 ELSE LET userdata == ConfigGet(d, K("_userdata"), EmptyDict)
                          fonts    == ConfigGet(d, K("fonts"), EmptyDict)
                          items    == DictAt(preset, K("items")).v
                          drawtexts == [i \in 1..Len(items) |->
                                           DrawText(items[i], userdata, fonts)]
                      IN  [exc |-> "none", val |-> <<K("-vf"), Join(drawtexts, <<",">>)>>]

(***************************************************************************)
(* build_ffmpeg_command                                                    *)
(***************************************************************************)

Auto == K("auto")

Off == K("off")

StreamMap(stream) == <<K("-map"), <<"0", ":">> \o StrOf(DictAt(stream, K("index")))>>

\* audio stream processing
AudioFlags(a, audio_stream) ==
    IF a.audio_codec # Off /\ audio_stream # None
    THEN StreamMap(audio_stream)
         \o (IF a.audio_codec # Auto THEN <<K("-c:a"), a.audio_codec>> ELSE <<>>)
         \o (IF a.audio_bitrate # Auto THEN <<K("-b:a"), a.audio_bitrate>> ELSE <<>>)
    ELSE <<K("-an")>>

\* additional flags
ExtraFlags(a) ==
    IF a.flags # None THEN Split(Join(a.flags.v, <<" ">>), " ") ELSE <<>>

\* the end of the command, were the container flag added after the output path
CommandTailContainerLast(a, output_filepath, audio_stream) ==
    AudioFlags(a, audio_stream)
    \o ExtraFlags(a)
    \o (IF a.y THEN <<K("-y")>> ELSE <<>>)
    \o <<output_filepath>>
    \o (IF a.container # Auto THEN <<K("-f"), a.container>> ELSE <<>>)

\* everything after the overlay flags
CommandTail(a, output_filepath, audio_stream) ==
    AudioFlags(a, audio_stream)
    \o ExtraFlags(a)
    \o (IF a.container # Auto THEN <<K("-f"), a.container>> ELSE <<>>)
    \o (IF a.y THEN <<K("-y")>> ELSE <<>>)
    \o <<output_filepath>>

\* everything before the overlay flags
CommandHead(ffmpeg, a, input_filepath, video_stream) ==
    <<ffmpeg, K("-hide_banner"), K("-loglevel"), K("warning"), K("-stats")>>
    \o <<K("-i"), input_filepath>>
    \o StreamMap(video_stream)
    \o <<K("-c:v"), a.codec>>
    \o (IF a.bitrate # Auto THEN <<K("-b:v"), a.bitrate>> ELSE <<>>)
    \o (IF a.profile # None THEN <<K("-profile:v"), a.profile.v>> ELSE <<>>)

\* returns [exc, none, cmd]: none is TRUE when the function returns None
BuildFfmpegCommand(d, a, input_filepath, output_filepath, video_stream, audio_stream) ==
    LET ffmpeg == ConfigGet(d, <<"path", ".", "ffmpeg">>, Str(K("ffmpeg")))
    IN  IF ffmpeg = None THEN [exc |-> "none", none |-> TRUE, cmd |-> <<>>]
        ELSE IF a.scale # Off THEN [exc |-> "BitcException", none |-> FALSE, cmd |-> <<>>]
        ELSE LET vf == BuildOverlayFlags(a.preset, d)
             IN  IF vf.exc # "none" THEN [exc |-> vf.exc, none |-> FALSE, cmd |-> <<>>]
                 ELSE [exc |-> "none", none |-> FALSE,
                       cmd |-> CommandHead(ffmpeg.v, a, input_filepath, video_stream)
                               \o vf.val
                               \o CommandTail(a, output_filepath, audio_stream)]

(***************************************************************************)
(* Config.get on bounded documents                                         *)
(***************************************************************************)

\* nesting depth of the documents
MaxDepth == 2

\* longest dotted key, in segments
MaxKeyLen == 3

Absent == [t |-> "absent", v |-> <<>>]

Scalars == {Str(K("x")), Num(1), None}

\* the mappings over keys a and b whose values are drawn from vals
DictsOver(vals) ==
    { Dict((IF f[1] # Absent THEN << <<K("a"), f[1]>> >> ELSE <<>>)
           \o (IF f[2] # Absent THEN << <<K("b"), f[2]>> >> ELSE <<>>)) :
        f \in [1..2 -> vals \cup {Absent}] }

RECURSIVE Values(_)
Values(depth) ==
    IF depth = 0 THEN Scalars ELSE Scalars \cup DictsOver(Values(depth - 1))

Documents == DictsOver(Values(MaxDepth - 1))

RECURSIVE SegmentLists(_)
SegmentLists(n) ==
    IF n = 0 THEN {<<>>}
    ELSE SegmentLists(n - 1)
         \cup {Append(p, seg) : p \in SegmentLists(n - 1), seg \in {K("a"), K("b")}}

DottedKeys == {Join(p, <<".">>) : p \in SegmentLists(MaxKeyLen) \ {<<>>}}

Defaults == {None, Str(K("d")), EmptyDict, Dict(<< <<K("b"), Str(K("y"))>> >>)}

GetInit ==
    /\ pc = "call"
    /\ args \in [doc : Documents, key : DottedKeys, default : Defaults]
    /\ data = args.doc
    /\ locals = <<>>
    /\ ret = None
    /\ exc = "none"
    /\ written = <<>>
    /\ ran = 0
    /\ status = -1
    /\ stderr = <<>>
    /\ trace = <<>>

GetCall ==
    /\ pc = "call"
    /\ pc' = "return"
    /\ ret' = ConfigGet(data, args.key, args.default)
    /\ UNCHANGED <<data, args, locals, exc, written, ran, status, stderr, trace>>

GetNext == GetCall

SpecGet == GetInit /\ [][GetNext]_vars

\* every segment is a key of the mapping reached by the segments before it
RECURSIVE Resolves(_, _)
Resolves(item, ks) ==
    \/ ks = <<>>
    \/ /\ item.t = "dict"
       /\ DictHas(item, Head(ks))
       /\ Resolves(DictAt(item, Head(ks)), Tail(ks))

RECURSIVE StoredAt(_, _)
StoredAt(item, ks) ==
    IF ks = <<>> THEN item ELSE StoredAt(DictAt(item, Head(ks)), Tail(ks))

\* C8: Config.get(key, default) returns the value stored at the full dotted path
\* when every segment resolves, and exactly the given default otherwise, whatever
\* the default is (a mapping included).
C8_GetDefaultOrStored ==
    pc = "return" =>
        LET ks == Split(args.key, ".")
        IN  ret = IF Resolves(args.doc, ks) THEN StoredAt(args.doc, ks) ELSE args.default

(***************************************************************************)
(* build_userdata_from_metadata on probed streams                          *)
(***************************************************************************)

\* Frame rates as ffprobe writes them (N/D), and one bare integer.  `shown` is the
\* display value the specification asks for: N/D to 3 decimals, or the integer.
FrameRates ==
    { [n |-> 24000, d |-> 1001, slash |-> TRUE,  shown |-> <<"2", "3", ".", "9", "7", "6">>],
      [n |-> 30000, d |-> 1001, slash |-> TRUE,  shown |-> <<"2", "9", ".", "9", "7">>],
      [n |-> 60000, d |-> 1001, slash |-> TRUE,  shown |-> <<"5", "9", ".", "9", "4">>],
      [n |-> 25,    d |-> 1,    slash |-> TRUE,  shown |-> <<"2", "5">>],
      [n |-> 30,    d |-> 1,    slash |-> TRUE,  shown |-> <<"3", "0">>],
      [n |-> 24,    d |-> 1,    slash |-> TRUE,  shown |-> <<"2", "4">>],
      [n |-> 25,    d |-> 1,    slash |-> FALSE, shown |-> <<"2", "5">>] }

RateText(r) == IF r.slash THEN Digits(r.n) \o <<"/">> \o Digits(r.d) ELSE Digits(r.n)

FrameSizes == {<<1920, 1080>>, <<1280, 720>>}

\* datetime.utcnow().isoformat(): the microseconds are left out when they are 0
Timestamps ==
    { <<"2021-03-04T05", ":", "06", ":", "07", ".", "000008">>,
      <<"2021-03-04T05", ":", "06", ":", "07">> }

VideoStream(index, avg, r, size, color) ==
    Dict(<< <<K("index"), Num(index)>>,
            <<K("codec_type"), Str(K("video"))>>,
            <<K("codec_name"), Str(K("h264"))>>,
            <<K("width"), Num(size[1])>>,
            <<K("height"), Num(size[2])>>,
            <<K("avg_frame_rate"), Str(avg)>>,
            <<K("r_frame_rate"), Str(r)>>,
            <<K("pix_fmt"), Str(K("yuv420p"))>> >>
         \o (IF color # Absent THEN << <<K("color_range"), color>> >> ELSE <<>>))

AudioStream(index) ==
    Dict(<< <<K("index"), Num(index)>>, <<K("codec_type"), Str(K("audio"))>> >>)

MetaInit ==
    /\ pc = "call"
    /\ args \in [avg : FrameRates, r : FrameRates, size : FrameSizes,
                 color : {Absent, Str(K("tv"))}, now : Timestamps]
    /\ data = EmptyDict
    /\ locals = <<>>
    /\ ret = None
    /\ exc = "none"
    /\ written = <<>>
    /\ ran = 0
    /\ status = -1
    /\ stderr = <<>>
    /\ trace = <<>>

MetaCall ==
    /\ pc = "call"
    /\ pc' = "return"
    /\ ret' = BuildUserdataFromMetadata(
                  <<"out.mov">>,
                  VideoStream(0, RateText(args.avg), RateText(args.r), args.size, args.color),
                  args.now)
    /\ UNCHANGED <<data, args, locals, exc, written, ran, status, stderr, trace>>

MetaNext == MetaCall

SpecMeta == MetaInit /\ [][MetaNext]_vars

\* C9: for a constant-frame-rate stream the display rate in info_1 is N/D rounded
\* to 3 decimals for a non-whole rate and the integer, without a fractional part,
\* for a whole rate ("25/1" gives "... 25 FPS").
C9_DisplayRate ==
    (pc = "return" /\ RateText(args.avg) = RateText(args.r)) =>
        /\ ret.exc = "none"
        /\ DictAt(ret.val, K("info_1")).v =
               Digits(args.size[1]) \o <<"x">> \o Digits(args.size[2]) \o <<",", " ">>
               \o args.avg.shown \o <<" ", "FPS">>

(***************************************************************************)
(* Config load followed by hydrate_userdata calls                          *)
(***************************************************************************)

\* hydrate_userdata calls per run (main makes two)
MaxCalls == 2

UserKeys == {K("heading_title"), K("title")}

UserTexts == {K("x"), K("y")}

\* A -d entry: KEY=VALUE, or one that does not split on "=" into two parts
GoodEntries == [k : UserKeys, v : UserTexts, ok : {TRUE}]

BadEntries ==
    { [k |-> K("title"), v |-> <<>>, ok |-> FALSE],
      [k |-> K("title"), v |-> <<"x", "=", "y">>, ok |-> FALSE] }

Entries == GoodEntries \cup BadEntries

EntryText(e) == IF e.ok \/ e.v # <<>> THEN e.k \o <<"=">> \o e.v ELSE e.k

EntryLists ==
    {<<>>} \cup {<<e>> : e \in Entries} \cup {<<e1, e2>> : e1 \in Entries, e2 \in Entries}

\* the mappings over the user keys
Mappings ==
    { Dict((IF f[1] # Absent THEN << <<K("heading_title"), f[1]>> >> ELSE <<>>)
           \o (IF f[2] # Absent THEN << <<K("title"), f[2]>> >> ELSE <<>>)) :
        f \in [1..2 -> {Str(x) : x \in UserTexts} \cup {Absent}] }

\* configuration documents as parsed, one of them with a "_userdata" key of its own
HydrateDocs ==
    { EmptyDict,
      Dict(<< <<K("_userdata"), Dict(<< <<K("title"), Str(K("z"))>> >>)>> >>) }

HydrateInit ==
    /\ pc = "loaded"
    /\ args \in [doc : HydrateDocs]
    /\ data = LoadConfig(args.doc)
    /\ locals = [calls |-> 0]
    /\ ret = None
    /\ exc = "none"
    /\ written = <<>>
    /\ ran = 0
    /\ status = -1
    /\ stderr = <<>>
    /\ trace = <<>>

\* one call config.hydrate_userdata(src); an exception ends the run
Hydrate(src, pairs) ==
    /\ LET r == HydrateUserdata(data, src)
       IN  /\ data' = r.data
           /\ exc' = r.exc
           /\ pc' = IF r.exc = "none" THEN "hydrated" ELSE "raised"
    /\ written' = written \o pairs
    /\ locals' = [calls |-> locals.calls + 1]
    /\ UNCHANGED <<args, ret, ran, status, stderr, trace>>

CanHydrate == pc \in {"loaded", "hydrated"} /\ locals.calls < MaxCalls

HydrateNone ==
    /\ CanHydrate
    /\ Hydrate(None, <<>>)

HydrateFromList ==
    /\ CanHydrate
    /\ \E es \in EntryLists :
           Hydrate(List([i \in 1..Len(es) |-> EntryText(es[i])]),
                   [i \in 1..Len(es) |-> <<es[i].k, es[i].v>>])

HydrateFromDict ==
    /\ CanHydrate
    /\ \E m \in Mappings :
           Hydrate(m, [i \in 1..Len(m.v) |-> <<m.v[i][1], m.v[i][2].v>>])

HydrateNext == HydrateNone \/ HydrateFromList \/ HydrateFromDict

SpecHydrate == HydrateInit /\ [][HydrateNext]_vars

Userdata == DictAt(data, K("_userdata"))

WritesOf(k) == {i \in 1..Len(written) : written[i][1] = k}

LastWritten(k) ==
    written[CHOOSE i \in WritesOf(k) : \A j \in WritesOf(k) : j <= i][2]

\* C5: the user-data namespace is empty after Config load, and after any sequence
\* of successful hydrate_userdata calls every key holds the value of the last write
\* to it, in call order and entry order; keys never written are absent.
C5_LastWriteWins ==
    /\ pc = "loaded" => Userdata = EmptyDict
    /\ pc \in {"loaded", "hydrated"} =>
           /\ \A i \in 1..Len(Userdata.v) : WritesOf(Userdata.v[i][1]) # {}
           /\ \A i, j \in 1..Len(Userdata.v) :
                  Userdata.v[i][1] = Userdata.v[j][1] => i = j
           /\ \A k \in UserKeys :
                  IF WritesOf(k) = {} THEN ~DictHas(Userdata, k)
                  ELSE DictHas(Userdata, k) /\ DictAt(Userdata, k) = Str(LastWritten(k))

\* the two passes of main: a mapping that sets heading_title and title, then a list
\* that sets heading_title again; the list's value is kept, title keeps the mapping's
C5_UserOverridesMetadata ==
    /\ pc = "hydrated"
    /\ written = << <<K("heading_title"), K("x")>>, <<K("title"), K("x")>>,
                    <<K("heading_title"), K("y")>> >>
    /\ Userdata = Dict(<< <<K("heading_title"), Str(K("y"))>>, <<K("title"), Str(K("x"))>> >>)

(***************************************************************************)
(* build_overlay_flags on bounded presets                                  *)
(***************************************************************************)

\* longest value of the one-parameter items
MaxValueLen == 4

\* most items of a preset
MaxItems == 2

ValueSyms == {"$", "{", "a", "}", ":", ",", "\\"}

RECURSIVE TextsUpTo(_)
TextsUpTo(n) ==
    IF n = 0 THEN {<<>>}
    ELSE TextsUpTo(n - 1)
         \cup {Append(w, c) : w \in {u \in TextsUpTo(n - 1) : Len(u) = n - 1}, c \in ValueSyms}

\* presets of one item with one parameter, over every short value
OneParamItems ==
    { Dict(<< <<k, Str(w)>> >>) : k \in {K("text"), K("x")}, w \in TextsUpTo(MaxValueLen) }

\* items of several parameters, with and without a font reference
ItemPool ==
    { EmptyDict,
      Dict(<< <<K("text"), Str(<<"Hello", ",", " World">>)>>, <<K("font"), Str(K("main"))>> >>),
      Dict(<< <<K("font"), Str(K("main"))>>, <<K("text"), Str(<<"$", "{", "a", "}">>)>> >>),
      Dict(<< <<K("x"), Num(12)>>, <<K("font"), Str(K("sub"))>> >>),
      Dict(<< <<K("font"), Str(K("nofont"))>> >>),
      Dict(<< <<K("timecode"), Str(<<"01", ":", "00">>)>>, <<K("rate"), Str(<<"$", "{", "b", "}">>)>>,
              <<K("text"), Str(<<"a", ",", "$", "{", "c", "}">>)>> >>) }

RECURSIVE ItemLists(_)
ItemLists(n) ==
    IF n = 0 THEN {<<>>}
    ELSE ItemLists(n - 1)
         \cup {Append(p, it) : p \in {q \in ItemLists(n - 1) : Len(q) = n - 1}, it \in ItemPool}

PresetItems == {<<it>> : it \in OneParamItems} \cup ItemLists(MaxItems)

\* user-data namespaces, in insertion order
Namespaces ==
    { EmptyDict,
      Dict(<< <<K("a"), Str(K("x"))>> >>),
      Dict(<< <<K("a"), Str(<<"x", ":", "y", ",">>)>>, <<K("b"), Str(<<"2", "5">>)>> >>),
      Dict(<< <<K("a"), Str(<<"$", "{", "b", "}">>)>>, <<K("b"), Str(K("x"))>> >>),
      Dict(<< <<K("b"), Str(K("x"))>>, <<K("a"), Str(<<"$", "{", "b", "}">>)>> >>) }

Fonts ==
    Dict(<< <<K("main"), Dict(<< <<K("fontcolor"), Str(K("0xFFFFFF"))>> >>)>>,
            <<K("sub"),
              Dict(<< <<K("fontsize"), Num(36)>>, <<K("fontcolor"), Str(K("white"))>> >>)>> >>)

Colors == Dict(<< <<K("white"), Str(K("0xEEEEEE"))>> >>)

\* the configuration after load and hydration
OverlayConfig(items, userdata) ==
    DictSet(LoadConfig(Dict(<< <<K("colors"), Colors>>,
                               <<K("fonts"), Fonts>>,
                               <<K("presets"),
                                 Dict(<< <<K("default"),
                                           Dict(<< <<K("items"), List(items)>> >>)>> >>)>> >>)),
            K("_userdata"), userdata)

OverlayInit ==
    /\ pc = "call"
    /\ args \in [items : PresetItems, userdata : Namespaces]
    /\ data = OverlayConfig(args.items, args.userdata)
    /\ locals = [filters |-> <<>>]
    /\ ret = None
    /\ exc = "none"
    /\ written = <<>>
    /\ ran = 0
    /\ status = -1
    /\ stderr = <<>>
    /\ trace = <<>>

\* build_overlay_flags("default", config, ...); `filters` keeps each item's clause list
OverlayCall ==
    /\ pc = "call"
    /\ pc' = "return"
    /\ ret' = BuildOverlayFlags(K("default"), data)
    /\ locals' = [filters |->
                     [i \in 1..Len(args.items) |->
                         ItemFilters(args.items[i].v, DictAt(data, K("_userdata")),
                                     DictAt(data, K("fonts")))]]
    /\ UNCHANGED <<data, args, exc, written, ran, status, stderr, trace>>

OverlayNext == OverlayCall

SpecOverlay == OverlayInit /\ [][OverlayNext]_vars

Items == args.items

Params(i) == Items[i].v

\* the text a parameter's value has once coerced and substituted
Substituted(x) == Substitute(StrOf(x), args.userdata.v)

\* each ':' and ',' preceded by one backslash, every other symbol kept, in one pass
RECURSIVE Escaped(_)
Escaped(s) ==
    IF s = <<>> THEN <<>>
    ELSE (IF Head(s) \in {":", ","} THEN <<"\\", Head(s)>> ELSE <<Head(s)>>)
         \o Escaped(Tail(s))

\* name='value' for text and timecode, name=value for every other name
Quoted(k, body) ==
    IF k \in {K("text"), K("timecode")}
    THEN k \o <<"=", "'">> \o body \o <<"'">>
    ELSE k \o <<"=">> \o body

IsMember(x, seq) == \E p \in 1..Len(seq) : seq[p] = x

\* C1: the clause of every non-font parameter carries the substituted value with
\* each ':' and ',' preceded by exactly one inserted backslash and nothing else
\* changed; the escaping does not act on its own output.
C1_EscapeOnce ==
    pc = "return" =>
        /\ \A i \in 1..Len(Items) : \A j \in 1..Len(Params(i)) :
               Params(i)[j][1] # K("font") =>
                   IsMember(Quoted(Params(i)[j][1], Escaped(Substituted(Params(i)[j][2]))),
                            locals.filters[i])
        /\ (Len(Items) = 1 /\ Len(Params(1)) = 1 /\ Params(1)[1][1] # K("font")) =>
               ret.val[2] = <<"drawtext=">>
                            \o Quoted(Params(1)[1][1], Escaped(Substituted(Params(1)[1][2])))

\* a value holding a backslash, a colon and a comma was compiled
C1_EscapedValueCompiled ==
    /\ pc = "return"
    /\ Items = << Dict(<< <<K("text"), Str(<<"\\", ":", ",", "a">>)>> >>) >>
    /\ ret.val[2] = <<"drawtext=", "text", "=", "'", "\\", "\\", ":", "\\", ",", "a", "'">>

\* every ${key} of a known key replaced by the key's value, all at once; every
\* other symbol, unknown placeholders included, kept
RECURSIVE ReplacedAtOnce(_, _)
ReplacedAtOnce(v, uds) ==
    IF v = <<>> THEN <<>>
    ELSE IF \E n \in 1..Len(uds) : StartsWith(v, Placeholder(uds[n][1]))
    THEN LET n == CHOOSE m \in 1..Len(uds) : StartsWith(v, Placeholder(uds[m][1]))
         IN  uds[n][2].v \o ReplacedAtOnce(Drop(v, Len(Placeholder(uds[n][1]))), uds)
    ELSE <<Head(v)>> \o ReplacedAtOnce(Tail(v), uds)

\* C2: in the emitted clause every ${key} of the parameter value whose key is in
\* the user-data namespace stands replaced by that key's value, and every ${key}
\* of an unknown key stands as written.
C2_PlaceholdersReplaced ==
    pc = "return" =>
        \A i \in 1..Len(Items) : \A j \in 1..Len(Params(i)) :
            Params(i)[j][1] # K("font") =>
                IsMember(Quoted(Params(i)[j][1],
                                Escaped(ReplacedAtOnce(StrOf(Params(i)[j][2]), args.userdata.v))),
                         locals.filters[i])

\* the clauses of the font a `font` parameter names, values verbatim
FontOnly(x) ==
    LET fonts == DictAt(data, K("fonts"))
    IN  IF DictHas(fonts, StrOf(x))
        THEN LET f == DictAt(fonts, StrOf(x))
             IN  [n \in 1..Len(f.v) |-> f.v[n][1] \o <<"=">> \o StrOf(f.v[n][2])]
        ELSE <<>>

RECURSIVE ClausesWithoutFontKey(_)
ClausesWithoutFontKey(params) ==
    IF params = <<>> THEN <<>>
    ELSE (IF params[1][1] = K("font") THEN FontOnly(params[1][2])
          ELSE <<Quoted(params[1][1], Escaped(Substituted(params[1][2])))>>)
         \o ClausesWithoutFontKey(Tail(params))

\* C3: a `font` parameter contributes exactly the clauses of the font it names (none
\* for an unknown font) and no clause font=<value> of its own; the preset
\* {text: "Hello, World", font: "main"} compiles to
\* drawtext=fontcolor=0xFFFFFF:text='Hello\, World'.
C3_FontContributesFontClausesOnly ==
    pc = "return" =>
        /\ \A i \in 1..Len(Items) : locals.filters[i] = ClausesWithoutFontKey(Params(i))
        /\ (Items = << Dict(<< <<K("text"), Str(<<"Hello", ",", " World">>)>>,
                               <<K("font"), Str(K("main"))>> >>) >>) =>
               ret.val[2] = <<"drawtext=", "fontcolor", "=", "0xFFFFFF", ":",
                              "text", "=", "'", "Hello", "\\", ",", " World", "'">>

\* a is a subsequence of b
RECURSIVE IsSubsequence(_, _)
IsSubsequence(a, b) ==
    \/ a = <<>>
    \/ /\ b # <<>>
       /\ IF Head(a) = Head(b) THEN IsSubsequence(Tail(a), Tail(b))
          ELSE IsSubsequence(a, Tail(b))

OwnClauses(i) ==
    [j \in 1..Len(Params(i)) |-> Quoted(Params(i)[j][1], Escaped(Substituted(Params(i)[j][2])))]

HasFontKey(i) == \E j \in 1..Len(Params(i)) : Params(i)[j][1] = K("font")

\* C4: the result is the two tokens -vf and the chain; the chain is the items'
\* strings in list order joined by ','; an item's string is drawtext= followed by
\* its clauses joined by ':', the parameters' clauses in parameter order, quoted
\* exactly for text and timecode; an item without parameters gives drawtext=.
C4_ChainStructure ==
    pc = "return" =>
        /\ ret.exc = "none"
        /\ Len(ret.val) = 2
        /\ ret.val[1] = K("-vf")
        /\ Len(locals.filters) = Len(Items)
        /\ ret.val[2] = Join([i \in 1..Len(Items) |->
                                 <<"drawtext=">> \o Join(locals.filters[i], <<":">>)], <<",">>)
        /\ \A i \in 1..Len(Items) :
               /\ IsSubsequence(OwnClauses(i), locals.filters[i])
               /\ ~HasFontKey(i) => locals.filters[i] = OwnClauses(i)
               /\ Params(i) = <<>> => locals.filters[i] = <<>>
        /\ Items = <<EmptyDict>> => ret.val[2] = <<"drawtext=">>

\* an empty item followed by an item of three parameters was compiled
C4_TwoItemsCompiled ==
    /\ pc = "return"
    /\ Len(Items) = 2
    /\ Items[1] = EmptyDict
    /\ Len(Params(2)) = 3
    /\ args.userdata = EmptyDict
    /\ ret.val[2] = <<"drawtext=", ",", "drawtext=",
                      "timecode", "=", "'", "01", "\\", ":", "00", "'", ":",
                      "rate", "=", "$", "{", "b", "}", ":",
                      "text", "=", "'", "a", "\\", ",", "$", "{", "c", "}", "'">>

\* the user-data namespace with its entries in another insertion order
Reordered(ud, f) == Dict([n \in 1..Len(ud.v) |-> ud.v[f[n]]])

\* C10: the emitted clauses do not depend on the order in which the user-data keys
\* are substituted, also when a key's value holds a placeholder of another key.
C10_OrderIndependent ==
    pc = "return" =>
        \A f \in Permutations(1..Len(args.userdata.v)) :
            BuildOverlayFlags(K("default"),
                              OverlayConfig(Items, Reordered(args.userdata, f))) = ret

(***************************************************************************)
(* build_ffmpeg_command on bounded arguments                               *)
(***************************************************************************)

InputPath == <<"/media", "/", "clip.mp4">>

OutputPath == <<"/media", "/", "out.mov">>

\* --flags as given, and the tokens they stand for
FlagChoices ==
    { [given |-> None, tokens |-> <<>>],
      [given |-> List(<< <<"-t", " ", "5">>, <<"-shortest">> >>),
       tokens |-> <<K("-t"), K("5"), K("-shortest")>>] }

\* the path section of the configuration: a tool is named, not named, or null
PathSections ==
    { Dict((IF p # Absent THEN << <<K("ffprobe"), p>> >> ELSE <<>>)
           \o (IF m # Absent THEN << <<K("ffmpeg"), m>> >> ELSE <<>>)) :
        p \in {Absent, None}, m \in {Absent, None, Str(K("/opt/ffmpeg"))} }

\* presets: one with items, one without the items key
Presets ==
    Dict(<< <<K("default"),
              Dict(<< <<K("items"),
                        List(<< Dict(<< <<K("text"),
                                          Str(<<"$", "{", "heading_title", "}">>)>> >>) >>)>> >>)>>,
            <<K("bare"), Dict(<< <<K("fontsize"), Num(12)>> >>)>> >>)

ConfigDoc(path) == Dict(<< <<K("path"), path>>, <<K("presets"), Presets>> >>)

Arguments ==
    [codec : {K("prores_ks")}, bitrate : {Auto, K("5M")}, profile : {None, Str(K("3"))},
     scale : {Off, K("1080p")}, preset : {K("default"), K("missing"), K("bare")},
     audio_codec : {Auto, Off, K("aac")}, audio_bitrate : {Auto, K("128k")},
     flags : {c.given : c \in FlagChoices}, container : {Auto, K("mov")}, y : BOOLEAN]

CmdInit ==
    /\ pc = "call"
    /\ args \in [a : Arguments, path : PathSections, vindex : {0, 1},
                 audio : {None, AudioStream(2)}]
    /\ data = HydrateUserdata(LoadConfig(ConfigDoc(args.path)),
                              List(<< <<"heading_title", "=", "My Clip">> >>)).data
    /\ locals = <<>>
    /\ ret = None
    /\ exc = "none"
    /\ written = <<>>
    /\ ran = 0
    /\ status = -1
    /\ stderr = <<>>
    /\ trace = <<>>

CmdCall ==
    /\ pc = "call"
    /\ pc' = "return"
    /\ ret' = BuildFfmpegCommand(data, args.a, InputPath, OutputPath,
                                 VideoStream(args.vindex, <<"2", "5", "/", "1">>,
                                             <<"2", "5", "/", "1">>, <<1920, 1080>>, Absent),
                                 args.audio)
    /\ UNCHANGED <<data, args, locals, exc, written, ran, status, stderr, trace>>

CmdNext == CmdCall

SpecCmd == CmdInit /\ [][CmdNext]_vars

Opt(cond, tokens) == IF cond THEN tokens ELSE <<>>

FlagTokens == (CHOOSE c \in FlagChoices : c.given = args.a.flags).tokens

ToolPath == IF DictHas(args.path, K("ffmpeg")) THEN DictAt(args.path, K("ffmpeg")) ELSE Str(K("ffmpeg"))

HasAudio == args.audio # None /\ args.a.audio_codec # Off

AudioGroup ==
    IF HasAudio
    THEN <<K("-map"), <<"0", ":", "2">>>>
         \o Opt(args.a.audio_codec # Auto, <<K("-c:a"), args.a.audio_codec>>)
         \o Opt(args.a.audio_bitrate # Auto, <<K("-b:a"), args.a.audio_bitrate>>)
    ELSE <<K("-an")>>

Count(seq, x) == Cardinality({n \in 1..Len(seq) : seq[n] = x})

\* C7: with a tool path, scale off and a preset that has items, the command is the
\* fixed prefix, the input, the video map, the codec, the optional bitrate and
\* profile, the overlay pair, the audio group (the audio map with its options, or
\* the single token -an), the pass-through flags, the optional container, the
\* optional -y, and the output path last.
C7_CommandOrder ==
    (pc = "return" /\ ToolPath # None /\ args.a.scale = Off /\ args.a.preset = K("default")) =>
        /\ ret.exc = "none" /\ ~ret.none
        /\ ret.cmd = <<ToolPath.v, K("-hide_banner"), K("-loglevel"), K("warning"), K("-stats")>>
                     \o <<K("-i"), InputPath>>
                     \o <<K("-map"), <<"0", ":">> \o Digits(args.vindex)>>
                     \o <<K("-c:v"), args.a.codec>>
                     \o Opt(args.a.bitrate # Auto, <<K("-b:v"), args.a.bitrate>>)
                     \o Opt(args.a.profile # None, <<K("-profile:v"), args.a.profile.v>>)
                     \o <<K("-vf"), <<"drawtext=", "text", "=", "'", "My Clip", "'">>>>
                     \o AudioGroup
                     \o FlagTokens
                     \o Opt(args.a.container # Auto, <<K("-f"), args.a.container>>)
                     \o Opt(args.a.y, <<K("-y")>>)
                     \o <<OutputPath>>
        /\ ret.cmd[Len(ret.cmd)] = OutputPath
        /\ Count(ret.cmd, K("-an")) = (IF HasAudio THEN 0 ELSE 1)
        /\ Count(ret.cmd, <<"0", ":", "2">>) = (IF HasAudio THEN 1 ELSE 0)

\* a command with every optional group was assembled
C7_FullCommandBuilt ==
    /\ pc = "return"
    /\ ret.cmd = <<K("/opt/ffmpeg"), K("-hide_banner"), K("-loglevel"), K("warning"), K("-stats"),
                   K("-i"), InputPath, K("-map"), <<"0", ":", "1">>, K("-c:v"), K("prores_ks"),
                   K("-b:v"), K("5M"), K("-profile:v"), K("3"),
                   K("-vf"), <<"drawtext=", "text", "=", "'", "My Clip", "'">>,
                   K("-map"), <<"0", ":", "2">>, K("-c:a"), K("aac"), K("-b:a"), K("128k"),
                   K("-t"), K("5"), K("-shortest"), K("-f"), K("mov"), K("-y"), OutputPath>>

(***************************************************************************)
(* main() and the top-level handler                                        *)
(***************************************************************************)

Cfr == <<"2", "5", "/", "1">>

Ntsc == <<"3", "0", "0", "0", "0", "/", "1", "0", "0", "1">>

Video(index, avg, r) == VideoStream(index, avg, r, <<1920, 1080>>, Absent)

\* what ffprobe may print for the input
StreamLists ==
    { <<Video(0, Cfr, Cfr), AudioStream(1)>>,
      <<AudioStream(0), Video(1, Cfr, Cfr), Video(2, Cfr, Ntsc), AudioStream(3)>>,
      <<Video(0, Cfr, Ntsc), Video(1, Cfr, Cfr)>>,
      <<Video(0, Cfr, Cfr)>>,
      <<AudioStream(0)>>,
      <<>> }

ProbeOutput(streams) ==
    Dict(<< <<K("format"), Dict(<< <<K("format_name"), Str(K("mov"))>> >>)>>,
            <<K("streams"), List(streams)>> >>)

\* -d as given
DataChoices ==
    { [given |-> None, pairs |-> <<>>, ok |-> TRUE],
      [given |-> List(<< <<"heading_title", "=", "Mine">> >>),
       pairs |-> << <<K("heading_title"), K("Mine")>> >>, ok |-> TRUE],
      [given |-> List(<< <<"title", "=", "x">>, <<"bad">> >>),
       pairs |-> << <<K("title"), K("x")>> >>, ok |-> FALSE] }

\* exit codes of the transcode tool, and its death by signal 9
ReturnCodes == {0, 1, 255, -9}

FixedArguments ==
    [codec : {K("prores_ks")}, bitrate : {Auto}, profile : {None},
     scale : {Off, K("1080p")}, preset : {K("default"), K("missing"), K("bare")},
     audio_codec : {Auto}, audio_bitrate : {Auto},
     flags : {None}, container : {Auto}, y : {FALSE}]

Runs ==
    [a : FixedArguments, data : DataChoices, config_exists : BOOLEAN, input_exists : BOOLEAN,
     path : {q \in PathSections : ~DictHas(q, K("ffmpeg")) \/ DictAt(q, K("ffmpeg")) = None},
     streams : StreamLists, returncode : ReturnCodes]

NoLocals ==
    [metadata |-> None, video_stream |-> None, audio_stream |-> None, command |-> <<>>,
     returncode |-> 0]

Init ==
    /\ pc = "start"
    /\ args \in Runs
    /\ data = EmptyDict
    /\ locals = NoLocals
    /\ ret = None
    /\ exc = "none"
    /\ written = <<>>
    /\ ran = 0
    /\ status = -1
    /\ stderr = <<>>
    /\ trace = <<>>

Raise(kind) ==
    /\ exc' = kind
    /\ pc' = "raised"

\* config = Config(args.config)
LoadConfigFile ==
    /\ pc = "start"
    /\ IF ~args.config_exists
       THEN Raise("BitcException") /\ UNCHANGED data
       ELSE data' = LoadConfig(ConfigDoc(args.path)) /\ pc' = "config" /\ UNCHANGED exc
    /\ UNCHANGED <<args, locals, ret, written, ran, status, stderr, trace>>

\* if not os.path.exists(input_filepath)
CheckInput ==
    /\ pc = "config"
    /\ IF ~args.input_exists
       THEN Raise("BitcException")
       ELSE pc' = "input" /\ UNCHANGED exc
    /\ UNCHANGED <<data, args, locals, ret, written, ran, status, stderr, trace>>

\* probe_media: {} without a probe tool, else what the tool printed
ProbeMedia(d, printed) ==
    IF ConfigGet(d, <<"path", ".", "ffprobe">>, Str(K("ffprobe"))) = None
    THEN EmptyDict
    ELSE printed

\* metadata = probe_media(...); format = metadata["format"]
Probe ==
    /\ pc = "input"
    /\ LET metadata == ProbeMedia(data, ProbeOutput(args.streams))
       IN  IF ~DictHas(metadata, K("format"))
           THEN Raise("KeyError") /\ UNCHANGED locals
           ELSE /\ locals' = [locals EXCEPT !.metadata = metadata]
                /\ pc' = "probed"
                /\ UNCHANGED exc
    /\ trace' = Append(trace, "probe")
    /\ UNCHANGED <<data, args, ret, written, ran, status, stderr>>

\* the first stream of a kind, None when there is none
FirstStream(streams, kind) ==
    LET of == {n \in 1..Len(streams) : DictAt(streams[n], K("codec_type")) = Str(K(kind))}
    IN  IF of = {} THEN None ELSE streams[CHOOSE n \in of : \A m \in of : n <= m]

\* the loop over metadata.get("streams") and the check that follows it
SelectStreams ==
    /\ pc = "probed"
    /\ LET streams == DictAt(locals.metadata, K("streams")).v
           video   == FirstStream(streams, "video")
       IN  /\ locals' = [locals EXCEPT !.video_stream = video,
                                       !.audio_stream = FirstStream(streams, "audio")]
           /\ IF video = None THEN Raise("BitcException") ELSE pc' = "selected" /\ UNCHANGED exc
    /\ UNCHANGED <<data, args, ret, written, ran, status, stderr, trace>>

\* os.path.basename
Basename(path) == LET parts == Split(path, "/") IN parts[Len(parts)]

\* config.hydrate_userdata(build_userdata_from_metadata(...))
HydrateFromMetadata ==
    /\ pc = "selected"
    /\ \E now \in Timestamps :
          LET r == BuildUserdataFromMetadata(Basename(OutputPath), locals.video_stream, now)
          IN  IF r.exc # "none"
              THEN Raise(r.exc) /\ UNCHANGED <<data, written, trace>>
              ELSE /\ data' = HydrateUserdata(data, r.val).data
                   /\ written' = written
                                 \o [n \in 1..Len(r.val.v) |-> <<r.val.v[n][1], r.val.v[n][2].v>>]
                   /\ trace' = Append(trace, "hydrate")
                   /\ pc' = "metadata"
                   /\ UNCHANGED exc
    /\ UNCHANGED <<args, locals, ret, ran, status, stderr>>

\* config.hydrate_userdata(args.data)
HydrateFromArguments ==
    /\ pc = "metadata"
    /\ LET r == HydrateUserdata(data, args.data.given)
       IN  /\ data' = r.data
           /\ IF r.exc # "none" THEN Raise(r.exc) ELSE pc' = "hydrated" /\ UNCHANGED exc
    /\ written' = written \o args.data.pairs
    /\ trace' = Append(trace, "hydrate")
    /\ UNCHANGED <<args, locals, ret, ran, status, stderr>>

\* command = build_ffmpeg_command(...); command is None raises
BuildCommand ==
    /\ pc = "hydrated"
    /\ LET r == BuildFfmpegCommand(data, args.a, InputPath, OutputPath,
                                   locals.video_stream, locals.audio_stream)
       IN  IF r.exc # "none" THEN Raise(r.exc) /\ UNCHANGED locals
           ELSE IF r.none THEN Raise("BitcException") /\ UNCHANGED locals
           ELSE /\ locals' = [locals EXCEPT !.command = r.cmd]
                /\ pc' = "built"
                /\ UNCHANGED exc
    /\ trace' = Append(trace, "build")
    /\ UNCHANGED <<data, args, ret, written, ran, status, stderr>>

\* result = subprocess.run(command, ...); main returns 0 or the return code
RunTranscode ==
    /\ pc = "built"
    /\ ran' = ran + 1
    /\ locals' = [locals EXCEPT !.returncode = args.returncode]
    /\ stderr' = IF args.returncode = 0 THEN stderr ELSE Append(stderr, "Encode FAILED!")
    /\ trace' = Append(trace, "transcode")
    /\ pc' = "returned"
    /\ UNCHANGED <<data, args, ret, exc, written, status>>

\* exit(main()): the status is the low byte of the value main returned
ExitWithResult ==
    /\ pc = "returned"
    /\ status' = locals.returncode % 256
    /\ pc' = "exited"
    /\ UNCHANGED <<data, args, locals, ret, exc, written, ran, stderr, trace>>

\* except BitcException: print ERROR and exit(1); any other exception is not
\* caught: the interpreter prints the traceback and exits with status 1
ExitWithError ==
    /\ pc = "raised"
    /\ stderr' = Append(stderr, IF exc = "BitcException" THEN "ERROR: <message>"
                                ELSE "Traceback")
    /\ status' = 1
    /\ pc' = "exited"
    /\ UNCHANGED <<data, args, locals, ret, exc, written, ran, trace>>

Next ==
    \/ LoadConfigFile
    \/ CheckInput
    \/ Probe
    \/ SelectStreams
    \/ HydrateFromMetadata
    \/ HydrateFromArguments
    \/ BuildCommand
    \/ RunTranscode
    \/ ExitWithResult
    \/ ExitWithError

Spec == Init /\ [][Next]_vars

\* the first video stream the probe printed, None when it printed none
ProbedVideo == FirstStream(args.streams, "video")

ToolMissing ==
    \/ DictGet(args.path, K("ffprobe"), Str(K("ffprobe"))) = None
    \/ DictGet(args.path, K("ffmpeg"), Str(K("ffmpeg"))) = None

\* one of the validations of a run fails
ValidationFails ==
    \/ ~args.config_exists
    \/ ~args.input_exists
    \/ ToolMissing
    \/ ProbedVideo = None
    \/ /\ ProbedVideo # None
       /\ DictAt(ProbedVideo, K("avg_frame_rate")) # DictAt(ProbedVideo, K("r_frame_rate"))
    \/ ~args.data.ok
    \/ args.a.scale # Off
    \/ args.a.preset # K("default")

\* C6: a run in which a validation fails raises the uniform error, prints
\* ERROR: <message>, exits with status 1 and never invokes the transcode; a run in
\* which every validation passes invokes the transcode exactly once, after the
\* probe, both hydration passes and the command assembly, and exits with 0 when
\* the transcode returns 0 and with the transcode's exit code otherwise.
C6_ExitStatus ==
    /\ ran <= 1
    /\ ran = 1 => trace = <<"probe", "hydrate", "hydrate", "build", "transcode">>
    /\ pc = "exited" =>
           IF ValidationFails
           THEN /\ exc = "BitcException"
                /\ stderr = <<"ERROR: <message>">>
                /\ status = 1
                /\ ran = 0
           ELSE /\ ran = 1
                /\ exc = "none"
                /\ args.returncode >= 0 => status = args.returncode

====
